---- MODULE Spec2Model ----
(***************************************************************************)
(* The stateful actions of rnote's ui/actions.rs (setup_actions): the      *)
(* enum-stateful actions current-pen, current-shape and shaper-drawstyle,  *)
(* the boolean action tmperaser with its saved pen, the settings actions   *)
(* devel, visual-debug, righthanded and renderer-backend, save-sheet and   *)
(* zoom-fit-width, and the widgets, canvas and application fields their    *)
(* handlers write.                                                         *)
(*                                                                         *)
(* A handler is an operator from a state record to a state record; the     *)
(* record's log field collects, in order, the calls the handler makes on   *)
(* widgets and on the canvas while one external event is processed.        *)
(***************************************************************************)
EXTENDS Integers, Sequences, FiniteSets, TLC

\* How many distinct strings that are no variant of any axis are requested.
MaxInvalid == 1

\* The strings the match arms of the three enum handlers recognise.
PenNames == {"marker", "brush", "shaper", "eraser", "selector"}

ShapeNames == {"line", "rectangle", "ellipse"}

DrawstyleNames == {"smooth", "rough"}

\* Strings of the right type ("s") that no match arm recognises.
InvalidNames == {"invalid" \o ToString(i) : i \in 1..MaxInvalid}

PenValues == PenNames \cup InvalidNames

ShapeValues == ShapeNames \cup InvalidNames

DrawstyleValues == DrawstyleNames \cup InvalidNames

\* pens::PenStyle, shaper::CurrentShape, shaper::DrawStyle as the arms name them.
PenStyle == {"Marker", "Brush", "Shaper", "Eraser", "Selector"}

CurrentShape == {"Line", "Rectangle", "Ellipse"}

DrawStyle == {"Smooth", "Rough"}

PenToggles ==
    {"marker_toggle", "brush_toggle", "shaper_toggle", "eraser_toggle", "selector_toggle"}

ShapeToggles == {"line_toggle", "rectangle_toggle", "ellipse_toggle"}

DrawstyleToggles == {"drawstyle_smooth_toggle", "drawstyle_rough_toggle"}

VARIABLES
    actions,    \* action name -> its stored state
    canvas,     \* current_pen, current_shape, drawstyle
    widgets,    \* active toggles, sidebar page, fill revealer
    pen_tmp,    \* the Rc<Cell<PenStyle>> the tmperaser handler captures
    log,        \* the widget / canvas calls made while the last event ran
    last,       \* the last external event
    settings,   \* state of the actions app_settings().create_action made
    window,     \* main grid, header bar, popover and flap placement, devel widgets
    renderer,   \* canvas().renderer(): backend
    doc,        \* output_file, scalefactor, scroller and page width
    crashed,    \* a handler panicked: the process is gone
    chain,      \* the calls an external command has set off and that have not run yet
    glib_checks \* whether GLib was built with its g_return_if_fail checks

vars ==
    <<actions, canvas, widgets, pen_tmp, log, last, settings, window, renderer, doc,
      crashed, glib_checks, chain>>

\* The program state as one record, with an empty call log.
Cur ==
    [actions |-> actions, canvas |-> canvas, widgets |-> widgets,
     pen_tmp |-> pen_tmp, log |-> <<>>, settings |-> settings, window |-> window,
     renderer |-> renderer, doc |-> doc, crashed |-> crashed]

Event(name, entry, param) == [action |-> name, entry |-> entry, param |-> param]

----------------------------------------------------------------------------
(* gio / gtk calls the handlers make *)

\* SimpleAction::set_state: stores the value.
set_state(s, name, value) == [s EXCEPT !.actions[name] = value]

\* The toggles that share a group with t: activating one deactivates the others.
ToggleGroup(t) ==
    IF t \in PenToggles THEN PenToggles
    ELSE IF t \in ShapeToggles THEN ShapeToggles
    ELSE DrawstyleToggles

\* ToggleButton::set_active(true).
set_active(s, t) ==
    [s EXCEPT !.widgets.active = (@ \ ToggleGroup(t)) \cup {t},
              !.log = Append(@, <<"set_active", t>>)]

\* canvas().current_pen().set(pen).
current_pen_set(s, pen) ==
    [s EXCEPT !.canvas.current_pen = pen,
              !.log = Append(@, <<"current_pen", pen>>)]

\* sidebar_stack().set_visible_child_name(page).
set_visible_child_name(s, page) ==
    [s EXCEPT !.widgets.sidebar_page = page,
              !.log = Append(@, <<"set_visible_child_name", page>>)]

\* pens().borrow_mut().shaper.current_shape = shape.
current_shape_set(s, shape) ==
    [s EXCEPT !.canvas.current_shape = shape,
              !.log = Append(@, <<"current_shape", shape>>)]

\* fill_revealer().set_reveal_child(b).
set_reveal_child(s, b) ==
    [s EXCEPT !.widgets.fill_revealer = b,
              !.log = Append(@, <<"set_reveal_child", IF b THEN "true" ELSE "false">>)]

\* pens().borrow_mut().shaper.drawstyle = style.
drawstyle_set(s, style) ==
    [s EXCEPT !.canvas.drawstyle = style,
              !.log = Append(@, <<"drawstyle", style>>)]

\* log::error!(..): a log line and nothing else.
log_error(s, name) == [s EXCEPT !.log = Append(@, <<"log_error", name>>)]

----------------------------------------------------------------------------
(* Current Pen *)

PenArm(s, toggle, pen, page) ==
    set_visible_child_name(current_pen_set(set_active(s, toggle), pen), page)

\* As action_current_pen_change_state, the "eraser" arm showing the marker page.
action_current_pen_change_state_wrong_page(s, value) ==
    LET s1 == set_state(s, "current-pen", value)
        st == s1.actions["current-pen"]
    IN  CASE st = "marker" -> PenArm(s1, "marker_toggle", "Marker", "marker_page")
          [] st = "brush" -> PenArm(s1, "brush_toggle", "Brush", "brush_page")
          [] st = "shaper" -> PenArm(s1, "shaper_toggle", "Shaper", "shaper_page")
          [] st = "eraser" -> PenArm(s1, "eraser_toggle", "Eraser", "marker_page")
          [] st = "selector" -> PenArm(s1, "selector_toggle", "Selector", "selector_page")
          [] OTHER -> log_error(s1, "current-pen")

action_current_pen_change_state(s, value) ==
    LET s1 == set_state(s, "current-pen", value)
        st == s1.actions["current-pen"]
    IN  CASE st = "marker" -> PenArm(s1, "marker_toggle", "Marker", "marker_page")
          [] st = "brush" -> PenArm(s1, "brush_toggle", "Brush", "brush_page")
          [] st = "shaper" -> PenArm(s1, "shaper_toggle", "Shaper", "shaper_page")
          [] st = "eraser" -> PenArm(s1, "eraser_toggle", "Eraser", "eraser_page")
          [] st = "selector" -> PenArm(s1, "selector_toggle", "Selector", "selector_page")
          [] OTHER -> log_error(s1, "current-pen")

\* As action_current_pen_activate, without the comparison with the stored state.
action_current_pen_activate_unguarded(s, parameter) ==
    action_current_pen_change_state(s, parameter)

action_current_pen_activate(s, parameter) ==
    IF s.actions["current-pen"] # parameter
    THEN action_current_pen_change_state(s, parameter)
    ELSE s

----------------------------------------------------------------------------
(* Shaper drawstyle *)

action_shaper_drawstyle_change_state(s, value) ==
    LET s1 == set_state(s, "shaper-drawstyle", value)
        st == s1.actions["shaper-drawstyle"]
    IN  CASE st = "smooth" -> drawstyle_set(set_active(s1, "drawstyle_smooth_toggle"), "Smooth")
          [] st = "rough" -> drawstyle_set(set_active(s1, "drawstyle_rough_toggle"), "Rough")
          [] OTHER -> log_error(s1, "shaper-drawstyle")

action_shaper_drawstyle_activate(s, parameter) ==
    IF s.actions["shaper-drawstyle"] # parameter
    THEN action_shaper_drawstyle_change_state(s, parameter)
    ELSE s

----------------------------------------------------------------------------
(* Current Shape *)

ShapeArm(s, toggle, shape, reveal) ==
    set_reveal_child(current_shape_set(set_active(s, toggle), shape), reveal)

\* As action_current_shape_change_state, the "ellipse" arm hiding the fill revealer.
action_current_shape_change_state_ellipse_hidden(s, value) ==
    LET s1 == set_state(s, "current-shape", value)
        st == s1.actions["current-shape"]
    IN  CASE st = "line" -> ShapeArm(s1, "line_toggle", "Line", FALSE)
          [] st = "rectangle" -> ShapeArm(s1, "rectangle_toggle", "Rectangle", TRUE)
          [] st = "ellipse" -> ShapeArm(s1, "ellipse_toggle", "Ellipse", FALSE)
          [] OTHER -> log_error(s1, "current-shape")

action_current_shape_change_state(s, value) ==
    LET s1 == set_state(s, "current-shape", value)
        st == s1.actions["current-shape"]
    IN  CASE st = "line" -> ShapeArm(s1, "line_toggle", "Line", FALSE)
          [] st = "rectangle" -> ShapeArm(s1, "rectangle_toggle", "Rectangle", TRUE)
          [] st = "ellipse" -> ShapeArm(s1, "ellipse_toggle", "Ellipse", TRUE)
          [] OTHER -> log_error(s1, "current-shape")

action_current_shape_activate(s, parameter) ==
    IF s.actions["current-shape"] # parameter
    THEN action_current_shape_change_state(s, parameter)
    ELSE s

----------------------------------------------------------------------------
(* Temporary Eraser *)

\* As action_tmperaser_change_state, without the comparison with the stored state.
action_tmperaser_change_state_unguarded(s, value) ==
    LET s1 == set_state(s, "tmperaser", value)
    IN  IF s1.actions["tmperaser"]
        THEN current_pen_set([s1 EXCEPT !.pen_tmp = s1.canvas.current_pen], "Eraser")
        ELSE current_pen_set(s1, s1.pen_tmp)

\* As action_tmperaser_change_state, saving the pen after the eraser is set.
action_tmperaser_change_state_save_late(s, value) ==
    IF value # s.actions["tmperaser"]
    THEN LET s1 == set_state(s, "tmperaser", value)
         IN  IF s1.actions["tmperaser"]
             THEN LET s2 == current_pen_set(s1, "Eraser")
                  IN  [s2 EXCEPT !.pen_tmp = s2.canvas.current_pen]
             ELSE current_pen_set(s1, s1.pen_tmp)
    ELSE s

\* As action_tmperaser_change_state, the comparison made for a begin request alone.
action_tmperaser_change_state_end_unguarded(s, value) ==
    IF value # s.actions["tmperaser"] \/ ~value
    THEN LET s1 == set_state(s, "tmperaser", value)
         IN  IF s1.actions["tmperaser"]
             THEN current_pen_set([s1 EXCEPT !.pen_tmp = s1.canvas.current_pen], "Eraser")
             ELSE current_pen_set(s1, s1.pen_tmp)
    ELSE s

action_tmperaser_change_state(s, value) ==
    IF value # s.actions["tmperaser"]
    THEN LET s1 == set_state(s, "tmperaser", value)
         IN  IF s1.actions["tmperaser"]
             THEN current_pen_set([s1 EXCEPT !.pen_tmp = s1.canvas.current_pen], "Eraser")
             ELSE current_pen_set(s1, s1.pen_tmp)
    ELSE s

\* As action_tmperaser_activate, the parameterless form requesting the stored state.
action_tmperaser_activate_no_flip(s, parameter) ==
    IF parameter # <<>>
    THEN IF parameter[1] = "b"
         THEN action_tmperaser_change_state(s, parameter[2])
         ELSE s
    ELSE action_tmperaser_change_state(s, s.actions["tmperaser"])

\* parameter is <<>> (None) or <<"b", bool>> (Some of a boolean variant).
action_tmperaser_activate(s, parameter) ==
    IF parameter # <<>>
    THEN IF parameter[1] = "b"
         THEN action_tmperaser_change_state(s, parameter[2])
         ELSE s
    ELSE action_tmperaser_change_state(s, ~s.actions["tmperaser"])

----------------------------------------------------------------------------
(* Settings actions: app_settings().create_action(key) *)

BackendNames == {"librsvg", "resvg"}

BackendValues == BackendNames \cup InvalidNames

SettingsOf(devel, visual_debug, righthanded, backend) ==
    [n \in {"devel", "visual-debug", "righthanded", "renderer-backend"} |->
        CASE n = "devel" -> devel
          [] n = "visual-debug" -> visual_debug
          [] n = "righthanded" -> righthanded
          [] OTHER -> backend]

BoolStr(b) == IF b THEN "true" ELSE "false"

\* application().change_action_state(name, value) on a settings action that has
\* no handler connected: the key is written.
change_action_state(s, name, value) ==
    [s EXCEPT !.settings[name] = value,
              !.log = Append(@, <<"change_action_state", name, BoolStr(value)>>)]

(* Developer mode *)

\* As action_devel_state_notify, the cascade taken when devel is switched on.
action_devel_state_notify_cascade_on(s) ==
    LET state == s.settings["devel"]
        s1 == [s EXCEPT !.window.devel_settings_enabled = state,
                        !.log = Append(@, <<"set_enabled", BoolStr(state)>>)]
        s2 == [s1 EXCEPT !.window.devel_revealer = state,
                         !.log = Append(@, <<"set_reveal_child", BoolStr(state)>>)]
    IN  IF state THEN change_action_state(s2, "visual-debug", FALSE) ELSE s2

action_devel_state_notify(s) ==
    LET state == s.settings["devel"]
        s1 == [s EXCEPT !.window.devel_settings_enabled = state,
                        !.log = Append(@, <<"set_enabled", BoolStr(state)>>)]
        s2 == [s1 EXCEPT !.window.devel_revealer = state,
                         !.log = Append(@, <<"set_reveal_child", BoolStr(state)>>)]
    IN  IF ~state THEN change_action_state(s2, "visual-debug", FALSE) ELSE s2

\* A write of the devel key: the state notification runs when the state changes.
action_devel_change_state(s, value) ==
    IF s.settings["devel"] = value
    THEN s
    ELSE action_devel_state_notify([s EXCEPT !.settings["devel"] = value])

\* Activating a boolean settings action toggles it.
action_devel_activate(s) == action_devel_change_state(s, ~s.settings["devel"])

(* Visual Debug: no handler connected *)

action_visual_debug_change_state(s, value) == [s EXCEPT !.settings["visual-debug"] = value]

action_visual_debug_activate(s) ==
    action_visual_debug_change_state(s, ~s.settings["visual-debug"])

(* Renderer Backend *)

\* renderer().borrow_mut().backend = backend.
backend_set(s, backend) ==
    [s EXCEPT !.renderer.backend = backend, !.log = Append(@, <<"backend", backend>>)]

\* canvas().regenerate_content(true, true).
regenerate_content(s) == [s EXCEPT !.log = Append(@, <<"regenerate_content", "true", "true">>)]

\* As action_renderer_backend_state_notify, the "resvg" arm also writing the draw style.
action_renderer_backend_state_notify_drawstyle(s) ==
    LET state == s.settings["renderer-backend"]
    IN  regenerate_content(
            CASE state = "librsvg" -> backend_set(s, "Librsvg")
              [] state = "resvg" -> drawstyle_set(backend_set(s, "Resvg"), "Rough")
              [] OTHER -> log_error(s, "renderer-backend"))

action_renderer_backend_state_notify(s) ==
    LET state == s.settings["renderer-backend"]
    IN  regenerate_content(
            CASE state = "librsvg" -> backend_set(s, "Librsvg")
              [] state = "resvg" -> backend_set(s, "Resvg")
              [] OTHER -> log_error(s, "renderer-backend"))

\* A write of the renderer-backend key, by activation or by change-state request.
action_renderer_backend_change_state(s, value) ==
    IF s.settings["renderer-backend"] = value
    THEN s
    ELSE action_renderer_backend_state_notify([s EXCEPT !.settings["renderer-backend"] = value])

----------------------------------------------------------------------------
(* Righthanded *)

GridChildren == {"sidebar_grid", "sidebar_sep", "devel_actions_revealer", "canvas_scroller"}

HeaderBoxes == {"pens_togglebox", "quickactions_box"}

Colorpickers ==
    {"marker_page.colorpicker", "brush_page.colorpicker", "shaper_page.stroke_colorpicker",
     "shaper_page.fill_colorpicker"}

ArrowButtons ==
    {"templatechooser.help_button", "templatechooser.chooser_button",
     "shaper_page.roughconfig_menubutton"}

HandedToggles == {"righthanded_toggle", "lefthanded_toggle"}

\* The menu indicators that share a group with t: activating one deactivates the other.
IndicatorGroup(t) == HandedToggles

\* As indicator_set_active, the other indicator of the group left as it was.
indicator_set_active_no_group(s, t) ==
    [s EXCEPT !.window.indicator = @ \cup {t},
              !.log = Append(@, <<"set_active", t>>)]

\* canvasmenu().righthanded_toggle() / lefthanded_toggle() .set_active(true).
indicator_set_active(s, t) ==
    [s EXCEPT !.window.indicator = (@ \ IndicatorGroup(t)) \cup {t},
              !.log = Append(@, <<"set_active", t>>)]

\* main_grid().remove(child): the child is in no cell.
grid_remove(s, child) ==
    [s EXCEPT !.window.grid[child] = <<>>, !.log = Append(@, <<"remove", child>>)]

\* main_grid().attach(child, column, row, width, height).
grid_attach(s, child, column, row, width, height) ==
    [s EXCEPT !.window.grid[child] = <<column, row, width, height>>,
              !.log = Append(@, <<"attach", child>>)]

\* headerbar().remove(box).
headerbar_remove(s, box) ==
    [s EXCEPT !.window.pack[box] = "none", !.log = Append(@, <<"remove", box>>)]

\* headerbar().pack_start(box).
pack_start(s, box) ==
    [s EXCEPT !.window.pack[box] = "start", !.log = Append(@, <<"pack_start", box>>)]

\* headerbar().pack_end(box).
pack_end(s, box) ==
    [s EXCEPT !.window.pack[box] = "end", !.log = Append(@, <<"pack_end", box>>)]

\* colorpicker().set_property("position", pos).
set_position(s, picker, pos) ==
    [s EXCEPT !.window.position[picker] = pos, !.log = Append(@, <<"position", picker, pos>>)]

\* button.set_direction(dir).
set_direction(s, button, dir) ==
    [s EXCEPT !.window.direction[button] = dir,
              !.log = Append(@, <<"set_direction", button, dir>>)]

\* flap().set_flap_position(pos).
set_flap_position(s, pos) ==
    [s EXCEPT !.window.flap_position = pos, !.log = Append(@, <<"set_flap_position", pos>>)]

\* As RighthandedBranch, the main grid attached as the lefthanded branch attaches it.
RighthandedBranch_grid_lefthanded(s) ==
    LET s0 == s
        s1 == indicator_set_active(s0, "righthanded_toggle")
        s2 == grid_remove(s1, "sidebar_grid")
        s3 == grid_remove(s2, "sidebar_sep")
        s4 == grid_remove(s3, "devel_actions_revealer")
        s5 == grid_remove(s4, "canvas_scroller")
        s6 == grid_attach(s5, "sidebar_grid", 2, 1, 1, 2)
        s7 == grid_attach(s6, "sidebar_sep", 1, 1, 1, 2)
        s8 == grid_attach(s7, "devel_actions_revealer", 0, 1, 1, 1)
        s9 == grid_attach(s8, "canvas_scroller", 0, 2, 1, 1)
        s10 == headerbar_remove(s9, "pens_togglebox")
        s11 == headerbar_remove(s10, "quickactions_box")
        s12 == pack_end(s11, "quickactions_box")
        s13 == pack_start(s12, "pens_togglebox")
        s14 == set_position(s13, "marker_page.colorpicker", "Left")
        s15 == set_direction(s14, "templatechooser.help_button", "Right")
        s16 == set_direction(s15, "templatechooser.chooser_button", "Right")
        s17 == set_position(s16, "brush_page.colorpicker", "Left")
        s18 == set_position(s17, "shaper_page.stroke_colorpicker", "Left")
        s19 == set_position(s18, "shaper_page.fill_colorpicker", "Left")
        s20 == set_direction(s19, "shaper_page.roughconfig_menubutton", "Right")
        s21 == set_flap_position(s20, "Start")
    IN  s21

\* The branch taken when the righthanded state is true.
RighthandedBranch(s) ==
    LET s0 == s
        s1 == indicator_set_active(s0, "righthanded_toggle")
        s2 == grid_remove(s1, "sidebar_grid")
        s3 == grid_remove(s2, "sidebar_sep")
        s4 == grid_remove(s3, "devel_actions_revealer")
        s5 == grid_remove(s4, "canvas_scroller")
        s6 == grid_attach(s5, "sidebar_grid", 0, 1, 1, 2)
        s7 == grid_attach(s6, "sidebar_sep", 1, 1, 1, 2)
        s8 == grid_attach(s7, "devel_actions_revealer", 2, 1, 1, 1)
        s9 == grid_attach(s8, "canvas_scroller", 2, 2, 1, 1)
        s10 == headerbar_remove(s9, "pens_togglebox")
        s11 == headerbar_remove(s10, "quickactions_box")
        s12 == pack_end(s11, "quickactions_box")
        s13 == pack_start(s12, "pens_togglebox")
        s14 == set_position(s13, "marker_page.colorpicker", "Left")
        s15 == set_direction(s14, "templatechooser.help_button", "Right")
        s16 == set_direction(s15, "templatechooser.chooser_button", "Right")
        s17 == set_position(s16, "brush_page.colorpicker", "Left")
        s18 == set_position(s17, "shaper_page.stroke_colorpicker", "Left")
        s19 == set_position(s18, "shaper_page.fill_colorpicker", "Left")
        s20 == set_direction(s19, "shaper_page.roughconfig_menubutton", "Right")
        s21 == set_flap_position(s20, "Start")
    IN  s21

\* As LefthandedBranch, the separator attached at column 0.
LefthandedBranch_sep_column(s) ==
    LET s0 == s
        s1 == indicator_set_active(s0, "lefthanded_toggle")
        s2 == grid_remove(s1, "devel_actions_revealer")
        s3 == grid_remove(s2, "canvas_scroller")
        s4 == grid_remove(s3, "sidebar_sep")
        s5 == grid_remove(s4, "sidebar_grid")
        s6 == grid_attach(s5, "devel_actions_revealer", 0, 1, 1, 1)
        s7 == grid_attach(s6, "canvas_scroller", 0, 2, 1, 1)
        s8 == grid_attach(s7, "sidebar_sep", 0, 1, 1, 2)
        s9 == grid_attach(s8, "sidebar_grid", 2, 1, 1, 2)
        s10 == headerbar_remove(s9, "pens_togglebox")
        s11 == headerbar_remove(s10, "quickactions_box")
        s12 == pack_start(s11, "quickactions_box")
        s13 == pack_end(s12, "pens_togglebox")
        s14 == set_position(s13, "marker_page.colorpicker", "Right")
        s15 == set_direction(s14, "templatechooser.help_button", "Left")
        s16 == set_direction(s15, "templatechooser.chooser_button", "Left")
        s17 == set_position(s16, "brush_page.colorpicker", "Right")
        s18 == set_position(s17, "shaper_page.stroke_colorpicker", "Right")
        s19 == set_position(s18, "shaper_page.fill_colorpicker", "Right")
        s20 == set_direction(s19, "shaper_page.roughconfig_menubutton", "Left")
        s21 == set_flap_position(s20, "End")
    IN  s21

\* The branch taken when the righthanded state is false.
LefthandedBranch(s) ==
    LET s0 == s
        s1 == indicator_set_active(s0, "lefthanded_toggle")
        s2 == grid_remove(s1, "devel_actions_revealer")
        s3 == grid_remove(s2, "canvas_scroller")
        s4 == grid_remove(s3, "sidebar_sep")
        s5 == grid_remove(s4, "sidebar_grid")
        s6 == grid_attach(s5, "devel_actions_revealer", 0, 1, 1, 1)
        s7 == grid_attach(s6, "canvas_scroller", 0, 2, 1, 1)
        s8 == grid_attach(s7, "sidebar_sep", 1, 1, 1, 2)
        s9 == grid_attach(s8, "sidebar_grid", 2, 1, 1, 2)
        s10 == headerbar_remove(s9, "pens_togglebox")
        s11 == headerbar_remove(s10, "quickactions_box")
        s12 == pack_start(s11, "quickactions_box")
        s13 == pack_end(s12, "pens_togglebox")
        s14 == set_position(s13, "marker_page.colorpicker", "Right")
        s15 == set_direction(s14, "templatechooser.help_button", "Left")
        s16 == set_direction(s15, "templatechooser.chooser_button", "Left")
        s17 == set_position(s16, "brush_page.colorpicker", "Right")
        s18 == set_position(s17, "shaper_page.stroke_colorpicker", "Right")
        s19 == set_position(s18, "shaper_page.fill_colorpicker", "Right")
        s20 == set_direction(s19, "shaper_page.roughconfig_menubutton", "Left")
        s21 == set_flap_position(s20, "End")
    IN  s21

\* As Relayout, the flap left where it was.
Relayout_keep_flap(s, state) ==
    LET r == IF state THEN RighthandedBranch(s) ELSE LefthandedBranch(s)
    IN  [r EXCEPT !.window.flap_position = s.window.flap_position]

\* The body of the state notification, for the state it reads.
Relayout(s, state) == IF state THEN RighthandedBranch(s) ELSE LefthandedBranch(s)

action_righthanded_state_notify(s) == Relayout(s, s.settings["righthanded"])

\* A write of the righthanded key: the state notification runs when the state changes.
action_righthanded_change_state(s, value) ==
    IF s.settings["righthanded"] = value
    THEN s
    ELSE action_righthanded_state_notify([s EXCEPT !.settings["righthanded"] = value])

action_righthanded_activate(s) ==
    action_righthanded_change_state(s, ~s.settings["righthanded"])

\* A window with nothing placed yet.
BlankWindow(devel) ==
    [grid |-> [c \in GridChildren |-> <<>>],
     pack |-> [b \in HeaderBoxes |-> "none"],
     position |-> [c \in Colorpickers |-> "none"],
     direction |-> [b \in ArrowButtons |-> "none"],
     flap_position |-> "none",
     indicator |-> {},
     devel_settings_enabled |-> devel,
     devel_revealer |-> devel]

\* The window as it stands for a devel and a righthanded value.
WindowOf(devel, righthanded) ==
    Relayout([window |-> BlankWindow(devel), log |-> <<>>], righthanded).window

----------------------------------------------------------------------------
(* Save sheet *)

\* How many distinct files the save-as dialog can hand back.
MaxFiles == 2

Files == {"file" \o ToString(i) : i \in 1..MaxFiles}

\* A panic in a handler: the process ends and nothing more is written.
panic(s) == [s EXCEPT !.crashed = TRUE]

\* dialogs::dialog_save_sheet_as: picked is the file chosen, "none" on cancel.
dialog_save_sheet_as(s, picked) ==
    [s EXCEPT !.doc.output_file = IF picked = "none" THEN @ ELSE picked,
              !.log = Append(@, <<"dialog_save_sheet_as", picked>>)]

\* sheet().save_sheet(&output_file): the call; its result is an input of the handler.
save_sheet(s, file) == [s EXCEPT !.log = Append(@, <<"save_sheet", file>>)]

\* The Err arm. The `if let` of line 463 keeps the Ref returned by
\* output_file().borrow() alive until the end of its block, so the borrow_mut()
\* of line 466 finds the RefCell borrowed and panics before None is stored.
SaveFailedArm(s) == panic(log_error(s, "save-sheet"))

\* picked: what the dialog hands back if it is opened; ok: whether save_sheet succeeds.
action_save_sheet_activate(s, picked, ok) ==
    LET s1 == IF s.doc.output_file = "none" THEN dialog_save_sheet_as(s, picked) ELSE s
    IN  IF s1.doc.output_file # "none"
        THEN LET s2 == save_sheet(s1, s1.doc.output_file)
             IN  IF ok THEN s2 ELSE SaveFailedArm(s2)
        ELSE s1

action_save_sheet_as_activate(s, picked) == dialog_save_sheet_as(s, picked)

----------------------------------------------------------------------------
(* Zoom fit to width *)

\* How many multiples of the base scroller and page widths are tried.
MaxWidthSteps == 5

\* Canvas::SHADOW_WIDTH.
SHADOW_WIDTH == 10

ScrollerWidths == {1, 20, 21} \cup {200 * k : k \in 1..MaxWidthSteps}

FormatWidths == {96 * k : k \in 1..MaxWidthSteps}

Abs(n) == IF n < 0 THEN -n ELSE n

RECURSIVE Gcd(_, _)
Gcd(a, b) == IF b = 0 THEN a ELSE Gcd(b, a % b)

\* The quotient n / d (d > 0) as a fraction in lowest terms: the value of the
\* f64 division, rounding left out.
Quotient(n, d) ==
    LET g == Gcd(Abs(n), d)
    IN  IF g = 0 THEN <<0, 1>> ELSE <<n \div g, d \div g>>

\* canvas().scale_to(scalefactor).
scale_to(s, scalefactor) ==
    [s EXCEPT !.doc.scalefactor = scalefactor,
              !.log = Append(@, <<"scale_to", scalefactor>>)]

\* canvas().regenerate_background(true, true).
regenerate_background(s) ==
    [s EXCEPT !.log = Append(@, <<"regenerate_background", "true", "true">>)]

\* Canvas::SCALE_DEFAULT.
SCALE_DEFAULT == <<1, 1>>

action_zoom_reset_activate(s) == regenerate_background(scale_to(s, SCALE_DEFAULT))

\* As action_zoom_fit_width_activate, the shadow subtracted once.
action_zoom_fit_width_activate_one_shadow(s) ==
    LET new_scalefactor == Quotient(s.doc.scroller_width - SHADOW_WIDTH, s.doc.format_width)
    IN  regenerate_background(scale_to(s, new_scalefactor))

action_zoom_fit_width_activate(s) ==
    LET new_scalefactor ==
            Quotient(s.doc.scroller_width - SHADOW_WIDTH * 2, s.doc.format_width)
    IN  regenerate_background(scale_to(s, new_scalefactor))

\* The application's document fields for a scroller width and a page format.
DocOf(scroller_width, format_width, format_height) ==
    [output_file |-> "none", scalefactor |-> SCALE_DEFAULT,
     scroller_width |-> scroller_width, format_width |-> format_width,
     format_height |-> format_height]

----------------------------------------------------------------------------
(* Print sheet *)

\* How many pages a print run draws at most.
MaxPages == 2

FormatHeights == {128 * k : k \in 1..MaxWidthSteps}

\* print_cx: whether it has a cairo context, and its width and height with the
\* hard margins added.
PrintContexts ==
    [cairo_context : BOOLEAN, width : {595, 842}, height : {842}]

\* a/b <= c/d for fractions with positive denominators.
Leq(x, y) == x[1] * y[2] <= y[1] * x[2]

\* f64::min.
Min(x, y) == IF Leq(x, y) THEN x ELSE y

\* canvas().regenerate_content(true, false).
regenerate_content_no_redraw(s) ==
    [s EXCEPT !.log = Append(@, <<"regenerate_content", "true", "false">>)]

\* preview().snapshot(..), cx.rectangle(..), cx.clip(), cx.translate(0.0, y_offset).
snapshot_and_clip(s, page_nr) ==
    [s EXCEPT !.log = Append(@, <<"snapshot", page_nr>>)]

\* node.draw(&cx).
node_draw(s, page_nr) == [s EXCEPT !.log = Append(@, <<"draw", page_nr>>)]

\* As draw_page, returning when the snapshot has no render node.
draw_page_return_without_node(s, print_cx, page_nr, has_node) ==
    IF ~print_cx.cairo_context
    THEN s
    ELSE LET width_scale == Quotient(print_cx.width, s.doc.format_width)
             height_scale == Quotient(print_cx.height, s.doc.format_height)
             print_scalefactor == Min(width_scale, height_scale)
             app_scalefactor == s.doc.scalefactor
             s1 == regenerate_content_no_redraw(scale_to(s, print_scalefactor))
             s2 == snapshot_and_clip(s1, page_nr)
         IN  IF has_node
             THEN regenerate_content(scale_to(node_draw(s2, page_nr), app_scalefactor))
             ELSE log_error(s2, "print-sheet")

\* The draw-page callback. has_node: whether snapshot.free_to_node() is Some.
draw_page(s, print_cx, page_nr, has_node) ==
    IF ~print_cx.cairo_context
    THEN s
    ELSE LET width_scale == Quotient(print_cx.width, s.doc.format_width)
             height_scale == Quotient(print_cx.height, s.doc.format_height)
             print_scalefactor == Min(width_scale, height_scale)
             app_scalefactor == s.doc.scalefactor
             s1 == regenerate_content_no_redraw(scale_to(s, print_scalefactor))
             s2 == snapshot_and_clip(s1, page_nr)
             s3 == IF has_node THEN node_draw(s2, page_nr) ELSE log_error(s2, "print-sheet")
         IN  regenerate_content(scale_to(s3, app_scalefactor))

\* print_op.run: the draw-page callback once per page, pages numbered from 0;
\* nodes[i] tells whether page i - 1 gets a render node.
RECURSIVE DrawPages(_, _, _, _)
DrawPages(s, print_cx, nodes, page_nr) ==
    IF page_nr >= Len(nodes)
    THEN s
    ELSE DrawPages(draw_page(s, print_cx, page_nr, nodes[page_nr + 1]),
                   print_cx, nodes, page_nr + 1)

\* ok: whether print_op.run returns Ok.
action_print_sheet_activate(s, print_cx, nodes, ok) ==
    LET s1 == DrawPages(s, print_cx, nodes, 0)
    IN  IF ok THEN s1 ELSE log_error(s1, "print-sheet")

----------------------------------------------------------------------------
(* Warning, Error, and activation with whatever parameter the caller passes *)

\* parameter.unwrap().str().unwrap() / parameter.unwrap().get::<String>().unwrap()
\* succeed on a string variant alone.
IsString(parameter) == parameter # <<>> /\ parameter[1] = "s"

action_warning_activate(s, parameter) ==
    IF IsString(parameter)
    THEN [s EXCEPT !.log = Append(@, <<"log_warn", parameter[2]>>)]
    ELSE panic(s)

action_error_activate(s, parameter) ==
    IF IsString(parameter)
    THEN [s EXCEPT !.log = Append(@, <<"log_error", parameter[2]>>)]
    ELSE panic(s)

\* The closures connect_activate registers, as they receive Option<&Variant>.
action_current_pen_connect_activate(s, parameter) ==
    IF IsString(parameter) THEN action_current_pen_activate(s, parameter[2]) ELSE panic(s)

action_shaper_drawstyle_connect_activate(s, parameter) ==
    IF IsString(parameter) THEN action_shaper_drawstyle_activate(s, parameter[2]) ELSE panic(s)

action_current_shape_connect_activate(s, parameter) ==
    IF IsString(parameter) THEN action_current_shape_activate(s, parameter[2]) ELSE panic(s)

InvokeNames ==
    {"tmperaser", "current-pen", "current-shape", "shaper-drawstyle", "warning", "error"}

\* The parameter type each action is created with.
ParameterType(name) == IF name = "tmperaser" THEN "b" ELSE "s"

TypeMatches(name, parameter) == parameter # <<>> /\ parameter[1] = ParameterType(name)

connect_activate(s, name, parameter) ==
    CASE name = "tmperaser" -> action_tmperaser_activate(s, parameter)
      [] name = "current-pen" -> action_current_pen_connect_activate(s, parameter)
      [] name = "current-shape" -> action_current_shape_connect_activate(s, parameter)
      [] name = "shaper-drawstyle" -> action_shaper_drawstyle_connect_activate(s, parameter)
      [] name = "warning" -> action_warning_activate(s, parameter)
      [] OTHER -> action_error_activate(s, parameter)

\* activate_action(name, parameter): gio tests the parameter against the action's
\* parameter type with g_return_if_fail. A build of GLib with the checks drops
\* the call with a critical message; one without them runs the handler.
activate_action(s, name, parameter, checks) ==
    IF checks /\ ~TypeMatches(name, parameter)
    THEN [s EXCEPT !.log = Append(@, <<"g_critical", name>>)]
    ELSE connect_activate(s, name, parameter)

----------------------------------------------------------------------------
(* Dialogs, menus and the selection *)

\* dialogs::dialog_*(&appwindow): the dialog is shown; what it does later is its own.
dialog_show(s, kind) == [s EXCEPT !.log = Append(@, <<"dialog", kind>>)]

\* popovermenu().popup().
popup(s, menu) == [s EXCEPT !.log = Append(@, <<"popup", menu>>)]

action_keyboard_shortcuts_dialog_activate(s) == dialog_show(s, "dialog_keyboard_shortcuts")

action_clear_sheet_activate(s) == dialog_show(s, "dialog_clear_sheet")

action_new_sheet_activate(s) == dialog_show(s, "dialog_new_sheet")

action_open_sheet_activate(s) == dialog_show(s, "dialog_open_sheet")

action_import_file_activate(s) == dialog_show(s, "dialog_import_file")

action_open_canvasmenu_activate(s) == popup(s, "canvasmenu")

action_open_appmenu_activate(s) == popup(s, "appmenu")

\* The selection's strokes are moved to the trash of the sheet.
action_delete_selection_activate(s) ==
    [s EXCEPT !.log = @ \o << <<"remove_strokes">>, <<"strokes_trash.append">> >>]

\* The selection's strokes are copied into the sheet, the selection moved by (20, 20).
action_duplicate_selection_activate(s) ==
    [s EXCEPT !.log = @ \o << <<"strokes.append">>, <<"translate_selection", 20, 20>> >>]

----------------------------------------------------------------------------
(* Accelerators *)

\* The name and parameter type ("" for none) of every action setup_actions
\* creates and adds to the application.
RegisteredActions ==
    [n \in {"about", "clear-sheet", "open-canvasmenu", "open-appmenu", "zoom-reset",
            "zoom-fit-width", "zoom-in", "zoom-out", "delete-selection",
            "duplicate-selection", "import-file", "export-selection-as-svg",
            "export-sheet-as-svg", "keyboard-shortcuts", "warning", "error", "new-sheet",
            "save-sheet", "save-sheet-as", "open-sheet", "open-workspace", "print-sheet",
            "devel-settings", "tmperaser", "current-pen", "current-shape",
            "shaper-drawstyle", "devel", "renderer-backend", "format-borders",
            "touch-drawing", "autoexpand-height", "righthanded", "visual-debug"} |->
        CASE n = "tmperaser" -> "b"
          [] n \in {"warning", "error", "current-pen", "current-shape", "shaper-drawstyle",
                    "renderer-backend"} -> "s"
          [] OTHER -> ""]

\* A detailed action name "scope.name" or "scope.name(target)" in its parts, and
\* the key chord bound to it.
Accel(scope, name, target, chord) ==
    [scope |-> scope, name |-> name, target |-> target, chord |-> chord]

\* The entries setup_accels installs, in its order.
Accels ==
    {Accel("app", "keyboard-shortcuts", <<>>, "<Ctrl>question"),
     Accel("app", "quit", <<>>, "<Ctrl>q"),
     Accel("app", "open-canvasmenu", <<>>, "F9"),
     Accel("app", "open-appmenu", <<>>, "F10"),
     Accel("app", "new-sheet", <<>>, "<Ctrl>n"),
     Accel("app", "open-sheet", <<>>, "<Ctrl>o"),
     Accel("app", "save-sheet", <<>>, "<Ctrl>s"),
     Accel("app", "save-sheet-as", <<>>, "<Ctrl><Shift>s"),
     Accel("app", "clear-sheet", <<>>, "<Ctrl>l"),
     Accel("app", "print-sheet", <<>>, "<Ctrl>p"),
     Accel("app", "import-file", <<>>, "<Ctrl>i"),
     Accel("app", "zoomin", <<>>, "plus"),
     Accel("app", "zoomout", <<>>, "minus"),
     Accel("app", "delete-selection", <<>>, "Delete"),
     Accel("app", "duplicate-selection", <<>>, "<Ctrl>v"),
     Accel("app", "tmperaser", <<"b", TRUE>>, "d")}

\* The target is of the action's parameter type.
TargetMatches(type, target) == IF type = "" THEN target = <<>> ELSE target # <<>> /\ target[1] = type

\* The entry names an action added to the application, with a target of its type.
Resolves(accel) ==
    /\ accel.scope = "app"
    /\ accel.name \in DOMAIN RegisteredActions
    /\ TargetMatches(RegisteredActions[accel.name], accel.target)

\* What the handlers reached by a key chord take from outside: the file the
\* save-as dialog hands back, the print context and pages, and whether saving
\* or printing succeeds.
AccelEnv ==
    [picked : Files \cup {"none"}, ok : BOOLEAN,
     print_cx : {pc \in PrintContexts : pc.width = 595}, nodes : {<<>>, <<TRUE>>, <<FALSE>>}]

\* The part of it the handler of an action reads; the rest is held at one value.
AccelEnvOf(name) ==
    {env \in AccelEnv :
        /\ name \notin {"save-sheet", "save-sheet-as"} => env.picked = "none"
        /\ name \notin {"save-sheet", "print-sheet"} => env.ok
        /\ name # "print-sheet" => env.print_cx.cairo_context /\ env.nodes = <<>>}

\* A key chord of the table is pressed: the action its entry names is activated
\* with the entry's target; an entry that names no action of the application
\* does nothing.
accel_activate(s, accel, env) ==
    IF ~Resolves(accel)
    THEN s
    ELSE CASE accel.name = "keyboard-shortcuts" -> action_keyboard_shortcuts_dialog_activate(s)
           [] accel.name = "open-canvasmenu" -> action_open_canvasmenu_activate(s)
           [] accel.name = "open-appmenu" -> action_open_appmenu_activate(s)
           [] accel.name = "new-sheet" -> action_new_sheet_activate(s)
           [] accel.name = "open-sheet" -> action_open_sheet_activate(s)
           [] accel.name = "save-sheet" -> action_save_sheet_activate(s, env.picked, env.ok)
           [] accel.name = "save-sheet-as" -> action_save_sheet_as_activate(s, env.picked)
           [] accel.name = "clear-sheet" -> action_clear_sheet_activate(s)
           [] accel.name = "print-sheet" ->
                action_print_sheet_activate(s, env.print_cx, env.nodes, env.ok)
           [] accel.name = "import-file" -> action_import_file_activate(s)
           [] accel.name = "delete-selection" -> action_delete_selection_activate(s)
           [] accel.name = "duplicate-selection" -> action_duplicate_selection_activate(s)
           [] accel.name = "tmperaser" -> action_tmperaser_activate(s, accel.target)
           [] OTHER -> s

----------------------------------------------------------------------------
(* Commands set off by commands *)

\* The most handler runs counted per action and external command.
MaxFanouts == 3

ChainActions == {"current-pen", "current-shape", "shaper-drawstyle", "devel", "visual-debug"}

\* A call waiting to run: a request on an action, or a toggle's notification.
Frame(kind, name, value) == [kind |-> kind, name |-> name, value |-> value]

NoChain == [stack |-> <<>>, fanouts |-> [a \in ChainActions |-> 0]]

\* The action and the value the handler of a toggle activates.
ToggleTarget(t) ==
    IF t \in PenToggles
    THEN <<"current-pen", CHOOSE v \in PenNames : v \o "_toggle" = t>>
    ELSE IF t \in ShapeToggles
    THEN <<"current-shape", CHOOSE v \in ShapeNames : v \o "_toggle" = t>>
    ELSE <<"shaper-drawstyle",
           CHOOSE v \in DrawstyleNames : "drawstyle_" \o v \o "_toggle" = t>>

\* The handler of a toggle's notification: a toggle that has become active
\* activates its action with its own value; one that has become inactive
\* does nothing.
toggle_notify_active(s, t) ==
    IF t \in s.widgets.active
    THEN <<Frame("activate", ToggleTarget(t)[1], ToggleTarget(t)[2])>>
    ELSE <<>>

RECURSIVE SeqOf(_)
SeqOf(S) == IF S = {} THEN <<>> ELSE LET x == CHOOSE x \in S : TRUE IN <<x>> \o SeqOf(S \ {x})

\* The toggles whose active property a handler run changed: each notifies.
Notified(s, r) ==
    SeqOf({Frame("toggled", t, "") :
            t \in (s.widgets.active \ r.widgets.active) \cup (r.widgets.active \ s.widgets.active)})

\* The handler a waiting call runs.
RunFrame(s, f) ==
    CASE f.kind = "toggled" -> s
      [] f.name = "current-pen" ->
            IF f.kind = "activate"
            THEN action_current_pen_activate(s, f.value)
            ELSE action_current_pen_change_state(s, f.value)
      [] f.name = "current-shape" ->
            IF f.kind = "activate"
            THEN action_current_shape_activate(s, f.value)
            ELSE action_current_shape_change_state(s, f.value)
      [] f.name = "shaper-drawstyle" ->
            IF f.kind = "activate"
            THEN action_shaper_drawstyle_activate(s, f.value)
            ELSE action_shaper_drawstyle_change_state(s, f.value)
      [] f.name = "devel" -> action_devel_change_state(s, f.value = "true")
      [] OTHER -> action_visual_debug_change_state(s, f.value = "true")

\* The calls a run of f sets off, in the order they run.
SetOff(s, f) ==
    IF f.kind = "toggled" THEN toggle_notify_active(s, f.name) ELSE Notified(s, RunFrame(s, f))

----------------------------------------------------------------------------
(* The state after setup_actions, and the external events *)

InitTools ==
    /\ actions = [n \in {"tmperaser", "current-pen", "current-shape", "shaper-drawstyle"} |->
                    CASE n = "tmperaser" -> FALSE
                      [] n = "current-pen" -> "marker"
                      [] n = "current-shape" -> "rectangle"
                      [] OTHER -> "smooth"]
    /\ canvas = [current_pen |-> "Marker", current_shape |-> "Rectangle", drawstyle |-> "Smooth"]
    /\ widgets = [active |-> {"marker_toggle", "rectangle_toggle", "drawstyle_smooth_toggle"},
                  sidebar_page |-> "marker_page", fill_revealer |-> TRUE]
    /\ pen_tmp \in PenStyle
    /\ log = <<>>
    /\ last = Event("setup_actions", "none", <<>>)
    /\ chain = NoChain

\* The tool actions as setup_actions leaves them, the settings held at one value.
Init ==
    /\ InitTools
    /\ settings = SettingsOf(FALSE, FALSE, TRUE, "librsvg")
    /\ window = WindowOf(FALSE, TRUE)
    /\ renderer = [backend |-> "Librsvg"]
    /\ doc = DocOf(1000, 480, 640)
    /\ crashed = FALSE
    /\ glib_checks = TRUE    \* read by activate_action alone

Apply(r, ev) ==
    /\ actions' = r.actions
    /\ canvas' = r.canvas
    /\ widgets' = r.widgets
    /\ pen_tmp' = r.pen_tmp
    /\ log' = r.log
    /\ last' = ev
    /\ settings' = r.settings
    /\ window' = r.window
    /\ renderer' = r.renderer
    /\ doc' = r.doc
    /\ crashed' = r.crashed
    /\ UNCHANGED <<glib_checks, chain>>

ActivateCurrentPen ==
    \E v \in PenValues :
        Apply(action_current_pen_activate(Cur, v), Event("current-pen", "activate", <<"s", v>>))

ChangeStateCurrentPen ==
    \E v \in PenValues :
        Apply(action_current_pen_change_state(Cur, v),
              Event("current-pen", "change_state", <<"s", v>>))

ActivateShaperDrawstyle ==
    \E v \in DrawstyleValues :
        Apply(action_shaper_drawstyle_activate(Cur, v),
              Event("shaper-drawstyle", "activate", <<"s", v>>))

ChangeStateShaperDrawstyle ==
    \E v \in DrawstyleValues :
        Apply(action_shaper_drawstyle_change_state(Cur, v),
              Event("shaper-drawstyle", "change_state", <<"s", v>>))

ActivateCurrentShape ==
    \E v \in ShapeValues :
        Apply(action_current_shape_activate(Cur, v),
              Event("current-shape", "activate", <<"s", v>>))

ChangeStateCurrentShape ==
    \E v \in ShapeValues :
        Apply(action_current_shape_change_state(Cur, v),
              Event("current-shape", "change_state", <<"s", v>>))

ActivateTmperaser ==
    \E b \in BOOLEAN :
        Apply(action_tmperaser_activate(Cur, <<"b", b>>),
              Event("tmperaser", "activate", <<"b", b>>))

ActivateTmperaserNone ==
    Apply(action_tmperaser_activate(Cur, <<>>), Event("tmperaser", "activate", <<>>))

ChangeStateTmperaser ==
    \E b \in BOOLEAN :
        Apply(action_tmperaser_change_state(Cur, b),
              Event("tmperaser", "change_state", <<"b", b>>))

Next ==
    \/ ActivateCurrentPen
    \/ ChangeStateCurrentPen
    \/ ActivateShaperDrawstyle
    \/ ChangeStateShaperDrawstyle
    \/ ActivateCurrentShape
    \/ ChangeStateCurrentShape
    \/ ActivateTmperaser
    \/ ActivateTmperaserNone
    \/ ChangeStateTmperaser

Spec == Init /\ [][Next]_vars

----------------------------------------------------------------------------
(* The four enum axes: the tool axes and the renderer backend *)

ActivateRendererBackend ==
    \E v \in BackendValues :
        Apply(action_renderer_backend_change_state(Cur, v),
              Event("renderer-backend", "activate", <<"s", v>>))

ChangeStateRendererBackend ==
    \E v \in BackendValues :
        Apply(action_renderer_backend_change_state(Cur, v),
              Event("renderer-backend", "change_state", <<"s", v>>))

NextAxes ==
    \/ ActivateCurrentPen
    \/ ChangeStateCurrentPen
    \/ ActivateShaperDrawstyle
    \/ ChangeStateShaperDrawstyle
    \/ ActivateCurrentShape
    \/ ChangeStateCurrentShape
    \/ ActivateRendererBackend
    \/ ChangeStateRendererBackend

\* No event here reads the saved pen: it starts at one value.
InitAxes == Init /\ pen_tmp = "Marker"

SpecAxes == InitAxes /\ [][NextAxes]_vars

----------------------------------------------------------------------------
(* The settings actions *)

\* RendererBackend as the state notification leaves it for a stored name.
BackendOf(name) == IF name = "resvg" THEN "Resvg" ELSE "Librsvg"

\* The settings hold what an earlier run stored; the window stands as the
\* state notifications leave it for those values. The saved pen starts at one
\* value here and below: no handler reads it before the tmperaser handler wrote it.
InitSettings ==
    /\ InitTools
    /\ pen_tmp = "Marker"
    /\ \E d \in BOOLEAN, v \in BOOLEAN, r \in BOOLEAN, b \in BackendNames :
            /\ settings = SettingsOf(d, v, r, b)
            /\ window = WindowOf(d, r)
            /\ renderer = [backend |-> BackendOf(b)]
    /\ doc = DocOf(1000, 480, 640)
    /\ crashed = FALSE
    /\ glib_checks = TRUE

ActivateDevel == Apply(action_devel_activate(Cur), Event("devel", "activate", <<>>))

ChangeStateDevel ==
    \E b \in BOOLEAN :
        Apply(action_devel_change_state(Cur, b), Event("devel", "change_state", <<"b", b>>))

ActivateVisualDebug ==
    Apply(action_visual_debug_activate(Cur), Event("visual-debug", "activate", <<>>))

ChangeStateVisualDebug ==
    \E b \in BOOLEAN :
        Apply(action_visual_debug_change_state(Cur, b),
              Event("visual-debug", "change_state", <<"b", b>>))

ActivateRighthanded ==
    Apply(action_righthanded_activate(Cur), Event("righthanded", "activate", <<>>))

ChangeStateRighthanded ==
    \E b \in BOOLEAN :
        Apply(action_righthanded_change_state(Cur, b),
              Event("righthanded", "change_state", <<"b", b>>))

NextSettings ==
    \/ ActivateDevel
    \/ ChangeStateDevel
    \/ ActivateVisualDebug
    \/ ChangeStateVisualDebug
    \/ ActivateRighthanded
    \/ ChangeStateRighthanded
    \/ ActivateRendererBackend
    \/ ChangeStateRendererBackend

SpecSettings == InitSettings /\ [][NextSettings]_vars

----------------------------------------------------------------------------
(* Saving and zooming *)

InitDoc ==
    /\ InitTools
    /\ pen_tmp = "Marker"
    /\ settings = SettingsOf(FALSE, FALSE, TRUE, "librsvg")
    /\ window = WindowOf(FALSE, TRUE)
    /\ renderer = [backend |-> "Librsvg"]
    /\ \E w \in ScrollerWidths, pw \in FormatWidths : doc = DocOf(w, pw, 640)
    /\ crashed = FALSE
    /\ glib_checks = TRUE

SaveSheet ==
    /\ ~crashed
    /\ \E picked \in Files \cup {"none"}, ok \in BOOLEAN :
            Apply(action_save_sheet_activate(Cur, picked, ok),
                  Event("save-sheet", "activate", <<"env", picked, ok>>))

SaveSheetAs ==
    /\ ~crashed
    /\ \E picked \in Files \cup {"none"} :
            Apply(action_save_sheet_as_activate(Cur, picked),
                  Event("save-sheet-as", "activate", <<"env", picked>>))

ZoomFitWidth ==
    /\ ~crashed
    /\ Apply(action_zoom_fit_width_activate(Cur), Event("zoom-fit-width", "activate", <<>>))

ZoomReset ==
    /\ ~crashed
    /\ Apply(action_zoom_reset_activate(Cur), Event("zoom-reset", "activate", <<>>))

NextDoc ==
    \/ SaveSheet
    \/ SaveSheetAs
    \/ ZoomFitWidth
    \/ ZoomReset

SpecDoc == InitDoc /\ [][NextDoc]_vars

----------------------------------------------------------------------------
(* Printing *)

InitPrint ==
    /\ InitTools
    /\ pen_tmp = "Marker"
    /\ settings = SettingsOf(FALSE, FALSE, TRUE, "librsvg")
    /\ window = WindowOf(FALSE, TRUE)
    /\ renderer = [backend |-> "Librsvg"]
    /\ \E pw \in FormatWidths, ph \in FormatHeights : doc = DocOf(1000, pw, ph)
    /\ crashed = FALSE
    /\ glib_checks = TRUE

\* For each page drawn, whether its snapshot yields a render node.
NodeSeqs == UNION {[1..n -> BOOLEAN] : n \in 0..MaxPages}

PrintSheet ==
    /\ ~crashed
    /\ \E print_cx \in PrintContexts, nodes \in NodeSeqs, ok \in BOOLEAN :
            Apply(action_print_sheet_activate(Cur, print_cx, nodes, ok),
                  Event("print-sheet", "activate", <<"env", print_cx, nodes, ok>>))

NextPrint ==
    \/ PrintSheet
    \/ ZoomFitWidth
    \/ ZoomReset

SpecPrint == InitPrint /\ [][NextPrint]_vars

----------------------------------------------------------------------------
(* Key chords *)

PressChord ==
    /\ ~crashed
    /\ \E accel \in Accels : \E env \in AccelEnvOf(accel.name) :
            Apply(accel_activate(Cur, accel, env),
                  Event(accel.name, "accel", <<"chord", accel.chord>>))

NextAccels ==
    \/ PressChord
    \/ ZoomFitWidth

SpecAccels == InitDoc /\ [][NextAccels]_vars

----------------------------------------------------------------------------
(* An external command and the calls it sets off, one handler run per step *)

ExternalFrames ==
    {Frame(k, "current-pen", v) : k \in {"activate", "change_state"}, v \in PenValues}
        \cup {Frame(k, "current-shape", v) : k \in {"activate", "change_state"}, v \in ShapeNames}
        \cup {Frame(k, "shaper-drawstyle", v) :
                    k \in {"activate", "change_state"}, v \in DrawstyleNames}
        \cup {Frame("change_state", n, BoolStr(b)) :
                    n \in {"devel", "visual-debug"}, b \in BOOLEAN}

\* An external command arrives when nothing is waiting.
Command ==
    /\ chain.stack = <<>>
    /\ \E f \in ExternalFrames :
            /\ chain' = [stack |-> <<f>>, fanouts |-> NoChain.fanouts]
            /\ last' = Event(f.name, f.kind, <<"s", f.value>>)
    /\ log' = <<>>
    /\ UNCHANGED <<actions, canvas, widgets, pen_tmp, settings, window, renderer, doc,
                   crashed, glib_checks>>

\* The call on top runs; the calls it sets off run before the ones below it.
ChainStep ==
    /\ chain.stack # <<>>
    /\ LET f == Head(chain.stack)
           s == [Cur EXCEPT !.log = log]
           r == RunFrame(s, f)
           ran == f.kind # "toggled" /\ Len(r.log) > Len(s.log)
       IN  /\ actions' = r.actions
           /\ canvas' = r.canvas
           /\ widgets' = r.widgets
           /\ settings' = r.settings
           /\ window' = r.window
           /\ log' = r.log
           /\ chain' = [stack |-> SetOff(s, f) \o Tail(chain.stack),
                        fanouts |-> IF ran /\ chain.fanouts[f.name] < MaxFanouts
                                    THEN [chain.fanouts EXCEPT ![f.name] = @ + 1]
                                    ELSE chain.fanouts]
    /\ UNCHANGED <<pen_tmp, last, renderer, doc, crashed, glib_checks>>

NextChain ==
    \/ Command
    \/ ChainStep

SpecChain == Init /\ [][NextChain]_vars /\ WF_vars(ChainStep)

----------------------------------------------------------------------------
(* Activation by name with any parameter *)

InitInvoke ==
    /\ InitTools
    /\ pen_tmp = "Marker"
    /\ settings = SettingsOf(FALSE, FALSE, TRUE, "librsvg")
    /\ window = WindowOf(FALSE, TRUE)
    /\ renderer = [backend |-> "Librsvg"]
    /\ doc = DocOf(1000, 480, 640)
    /\ crashed = FALSE
    /\ glib_checks \in BOOLEAN

StringsOf(name) ==
    CASE name = "current-pen" -> PenValues
      [] name = "current-shape" -> ShapeValues
      [] name = "shaper-drawstyle" -> DrawstyleValues
      [] OTHER -> InvalidNames

\* No value, and values of the action's type and of another type.
InvokeParameters(name) ==
    IF name = "tmperaser"
    THEN {<<>>} \cup {<<"b", b>> : b \in BOOLEAN} \cup {<<"s", "marker">>}
    ELSE {<<>>, <<"b", TRUE>>} \cup {<<"s", v>> : v \in StringsOf(name)}

Invoke ==
    /\ ~crashed
    /\ \E name \in InvokeNames : \E parameter \in InvokeParameters(name) :
            /\ TypeMatches(name, parameter)
            /\ Apply(activate_action(Cur, name, parameter, glib_checks),
                     Event(name, "activate", parameter))

InvokeMismatched ==
    /\ ~crashed
    /\ \E name \in InvokeNames : \E parameter \in InvokeParameters(name) :
            /\ ~TypeMatches(name, parameter)
            /\ Apply(activate_action(Cur, name, parameter, glib_checks),
                     Event(name, "activate", parameter))

NextInvoke ==
    \/ Invoke
    \/ InvokeMismatched

SpecInvoke == InitInvoke /\ [][NextInvoke]_vars

----------------------------------------------------------------------------
(* What the claims expect of each pen, shape and draw style name *)

ToggleOf(v) == v \o "_toggle"

PageOf(v) == v \o "_page"

PenStyleOf(v) ==
    CASE v = "marker" -> "Marker"
      [] v = "brush" -> "Brush"
      [] v = "shaper" -> "Shaper"
      [] v = "eraser" -> "Eraser"
      [] v = "selector" -> "Selector"

EnumActions == {"current-pen", "current-shape", "shaper-drawstyle"}

\* The step ends in the state and with the calls of the handler result r.
SameAs(r) ==
    /\ actions' = r.actions
    /\ canvas' = r.canvas
    /\ widgets' = r.widgets
    /\ pen_tmp' = r.pen_tmp
    /\ log' = r.log

\* The last event was a tmperaser request that passed the handler's guard.
TmperaserActed == last.action = "tmperaser" /\ log # <<>>

----------------------------------------------------------------------------
(* Claims *)

\* C1: requesting the value an enum-stateful action (current-pen, current-shape,
\* shaper-drawstyle) already holds is a no-op on both entry points: a step that
\* is an activation or a change-state request with the stored state as its value
\* leaves every field as it was and makes no widget or canvas call.
C1_RepeatedSetIsNoOp ==
    [][(/\ last'.action \in EnumActions
        /\ last'.param = <<"s", actions[last'.action]>>)
          => (UNCHANGED <<actions, canvas, widgets, pen_tmp>> /\ log' = <<>>)]_vars

\* C2: for every stateful action, every reachable state and every value v, the
\* activation with v and the change-state request for v end in the same state
\* and make the same sequence of widget and canvas calls: every change-state
\* step ends where the activation would have, and every activation step with a
\* value ends where the change-state request would have.
C2_ActivateEqualsChangeState ==
    [][/\ last' = Event("current-pen", "change_state", last'.param)
          => SameAs(action_current_pen_activate(Cur, last'.param[2]))
       /\ last' = Event("current-pen", "activate", last'.param)
          => SameAs(action_current_pen_change_state(Cur, last'.param[2]))
       /\ last' = Event("current-shape", "change_state", last'.param)
          => SameAs(action_current_shape_activate(Cur, last'.param[2]))
       /\ last' = Event("current-shape", "activate", last'.param)
          => SameAs(action_current_shape_change_state(Cur, last'.param[2]))
       /\ last' = Event("shaper-drawstyle", "change_state", last'.param)
          => SameAs(action_shaper_drawstyle_activate(Cur, last'.param[2]))
       /\ last' = Event("shaper-drawstyle", "activate", last'.param)
          => SameAs(action_shaper_drawstyle_change_state(Cur, last'.param[2]))
       /\ last' = Event("tmperaser", "change_state", last'.param)
          => SameAs(action_tmperaser_activate(Cur, last'.param))
       /\ (last' = Event("tmperaser", "activate", last'.param) /\ last'.param # <<>>)
          => SameAs(action_tmperaser_change_state(Cur, last'.param[2]))]_vars

\* C3: a request to set an enum axis to a string that is no variant of it changes
\* nothing but the log: stored state, canvas and widgets stay as they were and
\* the only call made is the error log.
C3_InvalidVariantIsNoOp ==
    [][(/\ last'.action \in EnumActions
        /\ last'.param[2] \in InvalidNames)
          => /\ UNCHANGED <<actions, canvas, widgets, pen_tmp>>
             /\ log' = << <<"log_error", last'.action>> >>]_vars

\* C4: in every reachable state the state of current-pen is one of the five pen
\* names, the state of current-shape one of the three shape names and the state
\* of shaper-drawstyle one of the two draw style names.
C4_Exclusivity ==
    /\ actions["current-pen"] \in PenNames
    /\ actions["current-shape"] \in ShapeNames
    /\ actions["shaper-drawstyle"] \in DrawstyleNames

\* C5: from every reachable state with tmperaser false, whatever the canvas pen p
\* is (Eraser included), setting tmperaser to true and then to false leaves the
\* canvas pen equal to p, with the pen being Eraser in between.
C5_OverrideRoundTrip ==
    actions["tmperaser"] = FALSE =>
        LET s1 == action_tmperaser_change_state(Cur, TRUE)
            s2 == action_tmperaser_change_state(s1, FALSE)
        IN  /\ s1.actions["tmperaser"] = TRUE
            /\ s1.canvas.current_pen = "Eraser"
            /\ s2.actions["tmperaser"] = FALSE
            /\ s2.canvas.current_pen = canvas.current_pen

\* C5 witness: an override has just been ended and has restored the pen Eraser,
\* the pen it had saved.
C5_Witness ==
    /\ TmperaserActed
    /\ actions["tmperaser"] = FALSE
    /\ pen_tmp = "Eraser"
    /\ canvas.current_pen = "Eraser"

\* C6: a request to set tmperaser to true while it is true changes nothing (no
\* field, no call), on either entry point; so from every state with tmperaser
\* false, set-true, set-true, set-false restores the canvas pen it started with.
C6_DoubleBeginGuard ==
    /\ actions["tmperaser"] = TRUE =>
          /\ action_tmperaser_change_state(Cur, TRUE) = Cur
          /\ action_tmperaser_activate(Cur, <<"b", TRUE>>) = Cur
    /\ actions["tmperaser"] = FALSE =>
          LET s1 == action_tmperaser_change_state(Cur, TRUE)
              s2 == action_tmperaser_change_state(s1, TRUE)
              s3 == action_tmperaser_change_state(s2, FALSE)
          IN  /\ s2 = s1
              /\ s2.pen_tmp = canvas.current_pen
              /\ s3.canvas.current_pen = canvas.current_pen

\* C6 witness: a set-true arrived while the override was active and was dropped,
\* the saved pen still being a pen other than Eraser.
C6_Witness ==
    /\ last = Event("tmperaser", "change_state", <<"b", TRUE>>)
    /\ log = <<>>
    /\ actions["tmperaser"] = TRUE
    /\ pen_tmp = "Brush"
    /\ canvas.current_pen = "Eraser"

\* C7: a step that takes tmperaser from false to true drives the pen observers
\* to the eraser (current-pen state "eraser", eraser toggle active, sidebar on
\* eraser_page, canvas pen Eraser), and a step that takes it from true to false
\* drives them to the restored pen.
C7_OverrideDrivesObservers ==
    [][/\ (actions["tmperaser"] = FALSE /\ actions'["tmperaser"] = TRUE)
          => /\ canvas'.current_pen = "Eraser"
             /\ actions'["current-pen"] = "eraser"
             /\ "eraser_toggle" \in widgets'.active
             /\ widgets'.sidebar_page = "eraser_page"
       /\ (actions["tmperaser"] = TRUE /\ actions'["tmperaser"] = FALSE)
          => /\ canvas'.current_pen = pen_tmp
             /\ actions'["current-pen"] \in PenNames
             /\ PenStyleOf(actions'["current-pen"]) = pen_tmp
             /\ widgets'.active \cap PenToggles = {ToggleOf(actions'["current-pen"])}
             /\ widgets'.sidebar_page = PageOf(actions'["current-pen"])]_vars

C9_PenFanOut ==
    \A v \in PenNames :
        v # actions["current-pen"] =>
            LET r == action_current_pen_activate(Cur, v)
            IN  /\ r.log = << <<"set_active", ToggleOf(v)>>,
                              <<"current_pen", PenStyleOf(v)>>,
                              <<"set_visible_child_name", PageOf(v)>> >>
                /\ r.actions["current-pen"] = v
                /\ r.canvas.current_pen = PenStyleOf(v)
                /\ r.widgets.active \cap PenToggles = {ToggleOf(v)}
                /\ r.widgets.sidebar_page = PageOf(v)

\* C9 witness: current-pen was activated with "eraser" from another pen: the
\* eraser toggle is active, the marker toggle is not, the sidebar shows eraser_page.
C9_Witness ==
    /\ last = Event("current-pen", "activate", <<"s", "eraser">>)
    /\ Len(log) = 3
    /\ actions["current-pen"] = "eraser"
    /\ canvas.current_pen = "Eraser"
    /\ "eraser_toggle" \in widgets.active
    /\ "marker_toggle" \notin widgets.active
    /\ widgets.sidebar_page = "eraser_page"

\* C10: every current-shape transition to a shape name, on either entry point,
\* ends with the fill revealer shown iff the new shape is rectangle or ellipse
\* (so hidden iff it is line), from every reachable state.
C10_FillRevealer ==
    \A v \in ShapeNames :
        LET r == action_current_shape_change_state(Cur, v)
            a == action_current_shape_activate(Cur, v)
        IN  /\ r.actions["current-shape"] = v
            /\ r.widgets.fill_revealer = (v \in {"rectangle", "ellipse"})
            /\ v # actions["current-shape"] =>
                  /\ a.actions["current-shape"] = v
                  /\ a.widgets.fill_revealer = (v \in {"rectangle", "ellipse"})

\* C10 witness: a change to "line" has hidden the revealer.
C10_Witness ==
    /\ last = Event("current-shape", "change_state", <<"s", "line">>)
    /\ actions["current-shape"] = "line"
    /\ canvas.current_shape = "Line"
    /\ widgets.fill_revealer = FALSE

----------------------------------------------------------------------------
(* Claims C11..C20 *)

InLog(e) == \E i \in 1..Len(log) : log[i] = e

Axes == {"current-pen", "current-shape", "shaper-drawstyle", "renderer-backend"}

\* An axis as the claims see it: its action state and its canvas-side mode.
AxisView(name) ==
    CASE name = "current-pen" -> <<actions["current-pen"], canvas.current_pen>>
      [] name = "current-shape" -> <<actions["current-shape"], canvas.current_shape>>
      [] name = "shaper-drawstyle" -> <<actions["shaper-drawstyle"], canvas.drawstyle>>
      [] OTHER -> <<settings["renderer-backend"], renderer.backend>>

\* C11: a transition on one of the axes current-pen, current-shape,
\* shaper-drawstyle, renderer-backend leaves the action state and the
\* canvas-side mode of every other axis unchanged.
C11_AxesIndependent ==
    [][\A a \in Axes \ {last'.action} : AxisView(a)' = AxisView(a)]_vars

\* C11 witness: a current-shape change has run with the three other axes away
\* from their initial values, and they are as they were.
C11_Witness ==
    /\ last = Event("current-shape", "change_state", <<"s", "ellipse">>)
    /\ AxisView("current-shape") = <<"ellipse", "Ellipse">>
    /\ AxisView("current-pen") = <<"brush", "Brush">>
    /\ AxisView("shaper-drawstyle") = <<"rough", "Rough">>
    /\ AxisView("renderer-backend") = <<"resvg", "Resvg">>

\* C12: whenever the devel state changes to false, visual-debug is false once
\* the transition completes and was forced by a change-state request on the
\* visual-debug action; a change of devel to true leaves visual-debug as it was.
C12_DevelOffForcesVisualDebugOff ==
    [][settings'["devel"] # settings["devel"] =>
          IF settings'["devel"]
          THEN settings'["visual-debug"] = settings["visual-debug"]
          ELSE /\ ~settings'["visual-debug"]
               /\ InLog(<<"change_action_state", "visual-debug", "false">>)']_vars

\* C12 witness: devel has just been switched off and the request was made.
C12_Witness ==
    /\ last.action = "devel"
    /\ ~settings["devel"]
    /\ ~settings["visual-debug"]
    /\ log = << <<"set_enabled", "false">>, <<"set_reveal_child", "false">>,
                <<"change_action_state", "visual-debug", "false">> >>

\* The slots the handedness transform places.
Slots(w) ==
    [grid |-> w.grid, pack |-> w.pack, position |-> w.position,
     direction |-> w.direction, flap_position |-> w.flap_position]

\* The placement that belongs to a flag value, slot by slot.
PlacementOf(flag) ==
    [grid |-> [c \in GridChildren |->
                CASE c = "sidebar_grid" -> IF flag THEN <<0, 1, 1, 2>> ELSE <<2, 1, 1, 2>>
                  [] c = "sidebar_sep" -> <<1, 1, 1, 2>>
                  [] c = "devel_actions_revealer" ->
                        IF flag THEN <<2, 1, 1, 1>> ELSE <<0, 1, 1, 1>>
                  [] OTHER -> IF flag THEN <<2, 2, 1, 1>> ELSE <<0, 2, 1, 1>>],
     pack |-> [b \in HeaderBoxes |->
                IF (b = "pens_togglebox") = flag THEN "start" ELSE "end"],
     position |-> [c \in Colorpickers |-> IF flag THEN "Left" ELSE "Right"],
     direction |-> [b \in ArrowButtons |-> IF flag THEN "Right" ELSE "Left"],
     flap_position |-> IF flag THEN "Start" ELSE "End"]

IndicatorOf(flag) == IF flag THEN "righthanded_toggle" ELSE "lefthanded_toggle"

\* C13: in every state between two events every slot is in the placement that
\* belongs to the current righthanded value, never some slots of one layout and
\* some of the other, and the one active menu indicator is righthanded_toggle
\* iff the flag is true and lefthanded_toggle iff it is false.
C13_HandednessAtomicTotal ==
    /\ Slots(window) = PlacementOf(settings["righthanded"])
    /\ window.indicator = {IndicatorOf(settings["righthanded"])}

\* C13 witness: a state notification has run for the flag false, coming from
\* the righthanded layout.
C13_Witness ==
    /\ last.action = "righthanded"
    /\ Len(log) > 20
    /\ ~settings["righthanded"]
    /\ window.flap_position = "End"
    /\ window.indicator = {"lefthanded_toggle"}

\* C14: from the lefthanded layout, righthanded = true and then false returns
\* every slot and the active indicator to its original assignment; from the
\* righthanded layout (itself reached by true), false and then true does.
C14_LayoutInvolution ==
    LET flag == settings["righthanded"]
        there == action_righthanded_change_state(Cur, ~flag)
        back == action_righthanded_change_state(there, flag)
    IN  /\ Slots(there.window) # Slots(window)
        /\ Slots(back.window) = Slots(window)
        /\ back.window.indicator = window.indicator
        /\ back.settings = settings

\* C14 witness: the lefthanded layout, reached by a state notification, from
\* which true moves the slots away.
C14_Witness ==
    /\ last = Event("righthanded", "activate", <<>>)
    /\ ~settings["righthanded"]
    /\ window.grid["sidebar_grid"] = <<2, 1, 1, 2>>
    /\ action_righthanded_change_state(Cur, TRUE).window.grid["sidebar_grid"] = <<0, 1, 1, 2>>

MirrorSide(x) ==
    CASE x = "start" -> "end"
      [] x = "end" -> "start"
      [] x = "Left" -> "Right"
      [] x = "Right" -> "Left"
      [] x = "Start" -> "End"
      [] x = "End" -> "Start"

\* Column c becomes 2 - c; row and span stay.
MirrorCell(cell) == <<2 - cell[1], cell[2], cell[3], cell[4]>>

Mirror(sl) ==
    [grid |-> [c \in GridChildren |-> MirrorCell(sl.grid[c])],
     pack |-> [b \in HeaderBoxes |-> MirrorSide(sl.pack[b])],
     position |-> [c \in Colorpickers |-> MirrorSide(sl.position[c])],
     direction |-> [b \in ArrowButtons |-> MirrorSide(sl.direction[b])],
     flap_position |-> MirrorSide(sl.flap_position)]

\* C15: the layout the handler produces for the other flag value is the mirror
\* of the present one in every slot: column c becomes 2 - c with the same row
\* and span, start becomes end, Left becomes Right, Start becomes End, and back.
C15_LefthandedIsMirror ==
    Slots(action_righthanded_change_state(Cur, ~settings["righthanded"]).window)
        = Mirror(Slots(window))

\* C15 witness: the lefthanded layout has been produced from the righthanded
\* one, the side panel gone from column 0 to column 2.
C15_Witness ==
    /\ last = Event("righthanded", "change_state", <<"b", FALSE>>)
    /\ Len(log) > 20
    /\ window.grid["sidebar_grid"] = <<2, 1, 1, 2>>
    /\ window.grid["canvas_scroller"] = <<0, 2, 1, 1>>
    /\ window.pack["pens_togglebox"] = "end"

Column(child) == window.grid[child][1]

Row(child) == window.grid[child][2]

HeaderAndPopovers ==
    /\ window.pack["pens_togglebox"] = "start"
    /\ \A b \in ArrowButtons : window.direction[b] = "Right"
    /\ \A c \in Colorpickers : window.position[c] = "Left"

\* C16 as stated: once the state notification has run for the flag true, the
\* side panel, the separator and the devel actions panel are at main-grid
\* columns greater than the canvas scroller's, the pens togglebox is packed at
\* the start, the arrows point Right and the colorpickers have position Left.
C16_TrailingSide ==
    [][(last'.action = "righthanded" /\ settings'["righthanded"] /\ log' # <<>>) =>
          (/\ \A c \in {"sidebar_grid", "sidebar_sep", "devel_actions_revealer"} :
                    Column(c) > Column("canvas_scroller")
           /\ HeaderAndPopovers)']_vars

\* C16 amended: in the righthanded layout the side panel and the separator are
\* at main-grid columns less than the canvas scroller's, side panel first; the
\* devel actions panel is in the canvas scroller's column, in the row above it;
\* the pens togglebox is packed at the start, the arrows point Right and the
\* colorpickers have position Left.
C16_RighthandedPlacement ==
    settings["righthanded"] =>
        /\ Column("sidebar_grid") < Column("sidebar_sep")
        /\ Column("sidebar_sep") < Column("canvas_scroller")
        /\ Column("devel_actions_revealer") = Column("canvas_scroller")
        /\ Row("devel_actions_revealer") < Row("canvas_scroller")
        /\ HeaderAndPopovers

\* C16 witness: the state notification has run for the flag true.
C16_Witness ==
    /\ last = Event("righthanded", "change_state", <<"b", TRUE>>)
    /\ Len(log) > 20
    /\ settings["righthanded"]
    /\ Column("sidebar_grid") = 0
    /\ Column("canvas_scroller") = 2

\* C17: when save-sheet runs with an output file set and saving fails, the
\* cached output file is none afterwards and the application goes on, so that
\* the next save-sheet opens the save-as dialog.
C17_FailedSaveResets ==
    [][(last'.action = "save-sheet" /\ doc.output_file # "none" /\ ~last'.param[3]) =>
          (doc'.output_file = "none" /\ ~crashed')]_vars

\* C18: an activation whose parameter does not match the action's parameter
\* type changes no action state and no canvas mode, and the application goes on.
C18_MismatchRejected ==
    [][(last'.entry = "activate" /\ ~TypeMatches(last'.action, last'.param)) =>
          (actions' = actions /\ canvas' = canvas /\ ~crashed')]_vars

\* C19: once zoom-fit-width has run, the canvas scale is (canvas-scroller width
\* - 2 * shadow width) / page format width, for every scroller and page width
\* tried; with scroller width 1000 and page width 480 it is 980 / 480 = 49 / 24.
C19_ZoomFitWidth ==
    last.action = "zoom-fit-width" =>
        /\ doc.scalefactor[2] > 0
        /\ doc.scalefactor[1] * doc.format_width
              = (doc.scroller_width - 2 * SHADOW_WIDTH) * doc.scalefactor[2]
        /\ (doc.scroller_width = 1000 /\ doc.format_width = 480) =>
              /\ doc.scalefactor = <<49, 24>>
              /\ doc.scalefactor[1] * 480 = 980 * doc.scalefactor[2]

\* C19 witness: zoom-fit-width has run with scroller width 1000, page width 480.
C19_Witness ==
    /\ last.action = "zoom-fit-width"
    /\ doc.scroller_width = 1000
    /\ doc.format_width = 480
    /\ doc.scalefactor = <<49, 24>>
    /\ InLog(<<"scale_to", <<49, 24>>>>)

\* C20: a request to set tmperaser to false while it is false, by change-state
\* or by activation, and whatever the saved pen holds, leaves the tmperaser
\* state, the saved pen and the active pen unchanged and makes no call.
C20_RedundantEndIsNoOp ==
    ~actions["tmperaser"] =>
        /\ action_tmperaser_change_state(Cur, FALSE) = Cur
        /\ action_tmperaser_activate(Cur, <<"b", FALSE>>) = Cur

\* C20 witness: the request was the first event after start-up, the saved pen
\* differing from the active pen, and nothing was written.
C20_Witness ==
    /\ last = Event("tmperaser", "change_state", <<"b", FALSE>>)
    /\ log = <<>>
    /\ ~actions["tmperaser"]
    /\ pen_tmp = "Brush"
    /\ canvas.current_pen = "Marker"
    /\ actions["current-pen"] = "marker"

----------------------------------------------------------------------------
(* Claims C21..C25 *)

\* C22: in every state in which tmperaser is false and the current-pen state is
\* a pen name, the canvas's current pen is the variant that state names, for
\* any interleaving of current-pen changes and override begin / end.
C22_PenSingleSource ==
    (~actions["tmperaser"] /\ actions["current-pen"] \in PenNames) =>
        canvas.current_pen = PenStyleOf(actions["current-pen"])

\* C23: while the tmperaser state is true the canvas's current pen is Eraser,
\* whatever other commands are invoked before the override ends.
C23_OverrideKeepsEraser ==
    actions["tmperaser"] => canvas.current_pen = "Eraser"

\* C25: each draw-page callback, on every path through it (no cairo context,
\* render node missing, normal drawing), ends with the canvas scale factor it
\* started with, and so does a print run of any number of pages tried.
C25_PrintKeepsZoom ==
    /\ \A print_cx \in PrintContexts, has_node \in BOOLEAN, page_nr \in 0..MaxPages :
            draw_page(Cur, print_cx, page_nr, has_node).doc.scalefactor = doc.scalefactor
    /\ \A print_cx \in PrintContexts, nodes \in NodeSeqs, ok \in BOOLEAN :
            action_print_sheet_activate(Cur, print_cx, nodes, ok).doc.scalefactor
                = doc.scalefactor

\* C25 witness: a print run has drawn a page at the print scale, found no
\* render node for another, and the scale is the zoom-fit-width scale it was.
C25_Witness ==
    /\ last.action = "print-sheet"
    /\ doc.format_width = 480
    /\ doc.scalefactor = <<49, 24>>
    /\ \E i \in 1..Len(log) : log[i][1] = "scale_to" /\ log[i][2] # <<49, 24>>
    /\ InLog(<<"draw", 0>>)
    /\ InLog(<<"log_error", "print-sheet">>)
    /\ log[Len(log) - 1] = <<"scale_to", <<49, 24>>>>

\* C24: every key chord setup_accels binds (that of "app.quit", which may be
\* added elsewhere, left aside), when pressed, resolves to an action that
\* setup_actions adds to the application under exactly the name of the entry,
\* with a target of the action's declared parameter type.
C24_AccelsResolve ==
    [][(last'.entry = "accel" /\ last'.action # "quit") =>
          \A accel \in Accels : accel.chord = last'.param[2] => Resolves(accel)]_vars

\* C21: every external command runs to completion: the calls it sets off
\* (devel off -> visual-debug change-state; pen change -> toggle notification
\* -> activation of current-pen with the value already stored) are used up
\* after finitely many handler runs, with at most one fan-out per action per
\* external command and never more than two calls waiting.
C21_ChainingTerminates ==
    /\ [](\A a \in ChainActions : chain.fanouts[a] <= 1)
    /\ [](Len(chain.stack) <= 2)
    /\ (chain.stack # <<>>) ~> (chain.stack = <<>>)

\* C21 witness: a pen change has run to completion; the brush toggle's
\* notification re-activated current-pen, which made no second fan-out.
C21_Witness ==
    /\ last = Event("current-pen", "change_state", <<"s", "brush">>)
    /\ chain.stack = <<>>
    /\ chain.fanouts["current-pen"] = 1
    /\ actions["current-pen"] = "brush"
    /\ "brush_toggle" \in widgets.active
    /\ Len(log) = 3

====
